---- MODULE Spec2Model ----
(***************************************************************************)
(* Model of app.py: the CSV sentence sequence checker.                     *)
(*                                                                         *)
(* A text is a sequence of one-character strings.  A Python dict is a      *)
(* sequence of [key, val] records in insertion order, a Python list is a   *)
(* sequence, a Python set is a set.  Offsets and indices are 0-based as in *)
(* the source; SubSeq is 1-based, so the slice operators convert.          *)
(***************************************************************************)
EXTENDS Integers, Sequences, FiniteSets, TLC

\* ---------------------------------------------------------------- bounds
MaxRows == 3
MaxLen == 2
MaxChars == 2
MaxL == 2
MaxOver == 0

\* ------------------------------------------------------ program constants
CHECK_LENGTHS == <<20, 40, 60>>

RowOffset == 2

\* ------------------------------------------------------------ input sets
Alphabet == {"a", "b"}

Labels == {<<"x">>}

\* the float NaN pandas puts in an empty cell; not a text over Alphabet
NaN == <<"NaN">>

Rep(c, n) == [j \in 1..n |-> c]

Strs(n) == UNION {[1..k -> Alphabet] : k \in 0..n}

SeqsUpTo(S, n) == UNION {[1..k -> S] : k \in 0..n}

\* --------------------------------------------------------- Python helpers
MinOf(S) == CHOOSE x \in S : \A y \in S : x <= y

MaxOf(S) == CHOOSE x \in S : \A y \in S : x >= y

Range(f) == {f[j] : j \in DOMAIN f}

\* for j in range(lo, hi): acc = Body(acc, j)
\* The range is run in order, first half then second half, so that the
\* evaluation nests only logarithmically deep; the test first = first is
\* always true and only makes the first half be evaluated before the second.
RECURSIVE ForRange(_, _, _, _)
ForRange(Body(_, _), acc, lo, hi) ==
    IF lo >= hi THEN acc
    ELSE IF lo + 1 = hi THEN Body(acc, lo)
    ELSE LET mid == (lo + hi) \div 2
             first == ForRange(Body, acc, lo, mid)
         IN IF first = first THEN ForRange(Body, first, mid, hi) ELSE first

RECURSIVE Flatten(_)
Flatten(ss) == IF ss = <<>> THEN <<>> ELSE Head(ss) \o Flatten(Tail(ss))

\* str(x): a text is itself, the float NaN prints as "nan"
str(x) == IF x = NaN THEN <<"n", "a", "n">> ELSE x

\* pd.isna(x) on a scalar
pd_isna(x) == x = NaN

\* one slice bound of s[a:b], for a text of length n
SliceBound(a, n) == IF a < 0 THEN (IF a + n < 0 THEN 0 ELSE a + n)
                    ELSE (IF a > n THEN n ELSE a)

\* s[a:b]
PySlice(s, a, b) ==
    LET lo == SliceBound(a, Len(s))
        hi == SliceBound(b, Len(s))
    IN IF lo < hi THEN SubSeq(s, lo + 1, hi) ELSE <<>>

\* s.find(sub, start) for start >= 0
PyFind(s, sub, start) ==
    LET hits == {j \in start..(Len(s) - Len(sub)) : SubSeq(s, j + 1, j + Len(sub)) = sub}
    IN IF hits = {} THEN -1 ELSE MinOf(hits)

\* SMALLEST_CHECK_LENGTH = min(CHECK_LENGTHS)
SMALLEST_CHECK_LENGTH == MinOf(Range(CHECK_LENGTHS))

\* sorted(CHECK_LENGTHS, reverse=True)
RECURSIVE SortDesc(_)
SortDesc(S) == IF S = {} THEN <<>> ELSE <<MaxOf(S)>> \o SortDesc(S \ {MaxOf(S)})

\* (the thresholds as configured, without reverse=True)
sorted_check_lengths_unsorted == CHECK_LENGTHS

sorted_check_lengths_desc == SortDesc(Range(CHECK_LENGTHS))

\* ------------------------------------------------------------ dict helpers
Keys(d) == {d[j].key : j \in DOMAIN d}

\* k in d
Has(d, k) == \E j \in DOMAIN d : d[j].key = k

Get(d, k) == (CHOOSE j \in DOMAIN d : d[j].key = k)

Val(d, k) == d[Get(d, k)].val

\* d[k].add(v) on a defaultdict(set)
DictAdd(d, k, v) ==
    IF Has(d, k)
    THEN [d EXCEPT ![Get(d, k)].val = @ \cup {v}]
    ELSE Append(d, [key |-> k, val |-> {v}])

\* d[k] = v on a dict
DictSet(d, k, v) ==
    IF Has(d, k)
    THEN [d EXCEPT ![Get(d, k)].val = v]
    ELSE Append(d, [key |-> k, val |-> v])

\* ------------------------------------------------ find_repeated_sequences
\* task_id = str(row_data[0]) if len(row_data) > 0 else "N/A"
TaskIdOf(row_data) == IF Len(row_data) > 0 THEN str(row_data[1]) ELSE <<"N", "/", "A">>

\* sentence = str(row_data[1]) if len(row_data) > 1 else ""
SentenceOf(row_data) == IF Len(row_data) > 1 THEN str(row_data[2]) ELSE <<>>

\* (the row number without the header line)
RowNumberNoHeader(idx) == idx + 1

\* original_csv_row_number = original_row_idx_df + 2   (idx is 0-based)
RowNumber(idx) == idx + RowOffset

\* if pd.isna(sentence) or len(sentence) < min_length_for_search: continue
Skipped(sentence, L) == pd_isna(sentence) \/ Len(sentence) < L

\* (original_csv_row_number, task_id, sentence)
SourceTuple(idx, row_data) == <<RowNumber(idx), TaskIdOf(row_data), SentenceOf(row_data)>>

\* (the inner loop started one length too short)
AddLengthsFromShorter(d, sentence, src, i, L) ==
    ForRange(LAMBDA acc, k : DictAdd(acc, PySlice(sentence, i, i + k), src),
             d, L - 1, Len(sentence) - i + 1)

\* for k in range(min_length_for_search, len(sentence) - i + 1):
\*     all_substrings_sources[sentence[i : i + k]].add(source_tuple)
AddLengths(d, sentence, src, i, L) ==
    ForRange(LAMBDA acc, k : DictAdd(acc, PySlice(sentence, i, i + k), src),
             d, L, Len(sentence) - i + 1)

\* (the outer loop stopped one start too early)
AddStartsButLast(d, sentence, src, L) ==
    ForRange(LAMBDA acc, i : AddLengths(acc, sentence, src, i, L),
             d, 0, Len(sentence) - L)

\* for i in range(len(sentence) - min_length_for_search + 1): ...
AddStarts(d, sentence, src, L) ==
    ForRange(LAMBDA acc, i : AddLengths(acc, sentence, src, i, L),
             d, 0, Len(sentence) - L + 1)

\* the body of the loop over the rows, for the row at idx
AddRow(d, data_rows, idx, L) ==
    LET row_data == data_rows[idx + 1]
        sentence == SentenceOf(row_data)
    IN IF Skipped(sentence, L) THEN d
       ELSE AddStarts(d, sentence, SourceTuple(idx, row_data), L)

\* for original_row_idx_df, row_data in enumerate(data_rows): ...
AllSubstringsSources(data_rows, L) ==
    ForRange(LAMBDA acc, idx : AddRow(acc, data_rows, idx, L), <<>>, 0, Len(data_rows))

\* (the scan moved past the whole hit: non-overlapping occurrences only)
NextStartPastHit(start_idx, sub_text) == start_idx + Len(sub_text)

\* start_idx += 1 after a hit
NextStart(start_idx, sub_text) == start_idx + 1

\* the while True loop: the start offsets appended for one source, in order
RECURSIVE Offsets(_, _, _)
Offsets(full_sent, sub_text, start) ==
    LET start_idx == PyFind(full_sent, sub_text, start)
    IN IF start_idx = -1 THEN <<>>
       ELSE <<start_idx>> \o Offsets(full_sent, sub_text, NextStart(start_idx, sub_text))

\* the occurrences appended for one source tuple
SourceOccurrences(src, sub_text) ==
    LET offs == Offsets(src[3], sub_text, 0)
    IN [j \in 1..Len(offs) |-> <<src[1], src[2], src[3], offs[j]>>]

\* iteration of a set of source tuples; the order of a Python set is not
\* specified, ord (a permutation of the row indices) picks it
IterSources(source_set, ord) ==
    LET present(j) == \E src \in source_set : src[1] = RowNumber(ord[j] - 1)
        pick(j) == CHOOSE src \in source_set : src[1] = RowNumber(ord[j] - 1)
        RECURSIVE walk(_)
        walk(j) == IF j > Len(ord) THEN <<>>
                   ELSE (IF present(j) THEN <<pick(j)>> ELSE <<>>) \o walk(j + 1)
    IN walk(1)

OccurrencesList(sub_text, source_set, ord) ==
    LET srcs == IterSources(source_set, ord)
    IN Flatten([j \in 1..Len(srcs) |-> SourceOccurrences(srcs[j], sub_text)])

\* (the filter accepting a single source)
IsRepeatedAtLeastOnce(source_set) == Cardinality(source_set) > 0

\* if len(source_set) > 1
IsRepeated(source_set) == Cardinality(source_set) > 1

\* the body of the filter loop, for one item of all_substrings_sources
FilterEntry(res, e, ord) ==
    LET occurrences_list == OccurrencesList(e.key, e.val, ord)
    IN IF IsRepeated(e.val) /\ occurrences_list # <<>>
       THEN DictSet(res, e.key, occurrences_list) ELSE res

\* the value returned, given the dict the first loop has built
RepeatedSequences(sources, ord) ==
    ForRange(LAMBDA acc, j : FilterEntry(acc, sources[j], ord), <<>>, 1, Len(sources) + 1)

find_repeated_sequences(data_rows, L, ord) ==
    RepeatedSequences(AllSubstringsSources(data_rows, L), ord)

\* ------------------------------------------------------------- the script
\* the header row pd.read_csv(header=None) keeps as row 0 of the frame
HeaderCell == <<"h">>

\* for index in range(1, len(df)): keep (row.iloc[0], row.iloc[1]) if len(row) >= 2,
\* warn about row index + 1 otherwise
LoadRow(acc, frame, index) ==
    LET row == frame[index + 1]
    IN IF Len(row) >= 2
       THEN [acc EXCEPT !.data = Append(@, <<row[1], row[2]>>)]
       ELSE [acc EXCEPT !.warned = Append(@, index + 1)]

LoadRows(frame) ==
    ForRange(LAMBDA acc, index : LoadRow(acc, frame, index),
             [data |-> <<>>, warned |-> <<>>], 1, Len(frame))

\* the category a sequence length falls in: the first threshold of
\* sorted_check_lengths_desc with seq_len >= threshold, 0 if there is none
RECURSIVE FirstThreshold(_, _)
FirstThreshold(seq_len, j) ==
    IF j > Len(sorted_check_lengths_desc) THEN 0
    ELSE IF seq_len >= sorted_check_lengths_desc[j] THEN sorted_check_lengths_desc[j]
    ELSE FirstThreshold(seq_len, j + 1)

\* exclusive_results = {length: {} for length in CHECK_LENGTHS}; processed = set()
EmptyCategories ==
    [results |-> [t \in Range(CHECK_LENGTHS) |-> <<>>], processed |-> {}]

\* the body of the categorization loop, for one item of all_found_sequences_data
CategorizeEntry(acc, e) ==
    LET seq_text == e.key
        threshold == FirstThreshold(Len(seq_text), 1)
    IN IF seq_text \in acc.processed \/ threshold = 0 THEN acc
       ELSE [results |-> [acc.results EXCEPT ![threshold] = DictSet(@, seq_text, e.val)],
             processed |-> acc.processed \cup {seq_text}]

\* for seq_text, occurrences in all_found_sequences_data.items(): ...
Categorize(found) ==
    ForRange(LAMBDA acc, j : CategorizeEntry(acc, found[j]), EmptyCategories, 1, Len(found) + 1)

\* (the de-duplication key extended with the start offset)
EntryKeyWithOffset(seq, occ) == <<seq, occ[1], occ[2], occ[3], occ[4]>>

\* entry_key = (seq, original_csv_row_number, task_id, sentence)
EntryKey(seq, occ) == <<seq, occ[1], occ[2], occ[3]>>

ExportRow(seq, occ) ==
    [sequence |-> seq, length |-> Len(seq), row |-> occ[1], task_id |-> occ[2], sentence |-> occ[3]]

\* the body of the loop over the occurrences of seq
ExportOccurrence(acc, seq, occ) ==
    LET entry_key == EntryKey(seq, occ)
    IN IF entry_key \in acc.seen THEN acc
       ELSE [seen |-> acc.seen \cup {entry_key},
             rows |-> Append(acc.rows, ExportRow(seq, occ))]

\* for original_csv_row_number, task_id, sentence, char_idx in occurrences: ...
ExportOccurrences(acc0, seq, occurrences) ==
    ForRange(LAMBDA acc, j : ExportOccurrence(acc, seq, occurrences[j]),
             acc0, 1, Len(occurrences) + 1)

\* for seq, occurrences in current_category_sequences.items(): ...
ExportCategory(category) ==
    ForRange(LAMBDA acc, j : ExportOccurrences(acc, category[j].key, category[j].val),
             [seen |-> {}, rows |-> <<>>], 1, Len(category) + 1)

\* export_data_for_category of every threshold
ExportData(results) ==
    [t \in Range(CHECK_LENGTHS) |-> ExportCategory(results[t]).rows]

\* ------------------------------------------------------------------ state
VARIABLES pc, df, min_length_for_search, data_to_process, warned,
          all_substrings_sources, repeated_sequences,
          exclusive_results, processed_sequences_text, export_data

vars == <<pc, df, min_length_for_search, data_to_process, warned,
          all_substrings_sources, repeated_sequences,
          exclusive_results, processed_sequences_text, export_data>>

\* the cells of an uploaded file: short texts, empty cells
Cells == Strs(MaxLen) \cup {NaN}

\* the rows of a frame with ncols columns
RowsOf(ncols) == IF ncols = 1 THEN {<<l>> : l \in Labels}
                 ELSE {<<l, c>> : l \in Labels, c \in Cells}

\* long texts: a "b" and a run of "a", as long as a category threshold or
\* up to MaxOver characters longer
LongTexts == {<<"b">> \o Rep("a", CHECK_LENGTHS[j] + d - 1) :
                 j \in DOMAIN CHECK_LENGTHS, d \in 0..MaxOver}

LongRows == {<<l, c>> : l \in Labels, c \in LongTexts}

Frame(rows) == <<<<HeaderCell, HeaderCell>>>> \o rows

\* the number of characters in the text column of rows
RECURSIVE TotalChars(_)
TotalChars(rows) ==
    IF rows = <<>> THEN 0
    ELSE (IF Len(Head(rows)) < 2 \/ Head(rows)[2] = NaN THEN 0 ELSE Len(Head(rows)[2]))
         + TotalChars(Tail(rows))

\* an uploaded frame: either two rows of long texts, the shorter first,
\* searched as the script does with SMALLEST_CHECK_LENGTH, or up to MaxRows
\* rows of short texts (MaxChars characters in all) searched with a minimum
\* length of 0..MaxL, as find_repeated_sequences accepts any
Init ==
    /\ pc = "upload"
    /\ \/ /\ \E r1 \in LongRows : \E r2 \in LongRows :
                /\ Len(r1[2]) <= Len(r2[2])
                /\ df = Frame(<<r1, r2>>)
          /\ min_length_for_search = SMALLEST_CHECK_LENGTH
       \/ /\ \E ncols \in 1..2 : \E rows \in SeqsUpTo(RowsOf(ncols), MaxRows) :
                /\ TotalChars(rows) <= MaxChars
                /\ df = <<[j \in 1..ncols |-> HeaderCell]>> \o rows
          /\ min_length_for_search \in 0..MaxL
    /\ data_to_process = <<>>
    /\ warned = <<>>
    /\ all_substrings_sources = <<>>
    /\ repeated_sequences = <<>>
    /\ exclusive_results = EmptyCategories.results
    /\ processed_sequences_text = {}
    /\ export_data = [t \in Range(CHECK_LENGTHS) |-> <<>>]

\* app.py 87-101: read the frame, keep the rows with two columns
Load ==
    /\ pc = "upload"
    /\ LET got == LoadRows(df)
       IN /\ data_to_process' = got.data
          /\ warned' = got.warned
          /\ pc' = IF got.data = <<>> THEN "nodata" ELSE "loaded"
    /\ UNCHANGED <<df, min_length_for_search, all_substrings_sources, repeated_sequences,
                   exclusive_results, processed_sequences_text, export_data>>

\* app.py 104: find_repeated_sequences(data_to_process, min_length_for_search)
Find ==
    /\ pc = "loaded"
    /\ LET sources == AllSubstringsSources(data_to_process, min_length_for_search)
       IN /\ all_substrings_sources' = sources
          /\ \E ord \in Permutations(1..Len(data_to_process)) :
                repeated_sequences' =
                    RepeatedSequences(sources, [j \in 1..Len(data_to_process) |-> ord[j]])
    /\ pc' = "found"
    /\ UNCHANGED <<df, min_length_for_search, data_to_process, warned,
                   exclusive_results, processed_sequences_text, export_data>>

\* app.py 109-128: exclusive categorization
Bucketize ==
    /\ pc = "found"
    /\ LET got == Categorize(repeated_sequences)
       IN /\ exclusive_results' = got.results
          /\ processed_sequences_text' = got.processed
    /\ pc' = "categorized"
    /\ UNCHANGED <<df, min_length_for_search, data_to_process, warned,
                   all_substrings_sources, repeated_sequences, export_data>>

\* app.py 141-200: the export rows of every category
Export ==
    /\ pc = "categorized"
    /\ export_data' = ExportData(exclusive_results)
    /\ pc' = "done"
    /\ UNCHANGED <<df, min_length_for_search, data_to_process, warned,
                   all_substrings_sources, repeated_sequences,
                   exclusive_results, processed_sequences_text>>

Next == Load \/ Find \/ Bucketize \/ Export

Spec == Init /\ [][Next]_vars

\* ------------------------------------------------- vocabulary of the claims
L == min_length_for_search

\* find_repeated_sequences has returned
Returned == pc \in {"found", "categorized", "done"}

Categorized == pc \in {"categorized", "done"}

RowIdx == 1..Len(data_to_process)

\* the text field of the idx-th data row as uploaded; NaN when it is missing
TextField(idx) == data_to_process[idx][2]

HasText(idx) == TextField(idx) # NaN

\* no data row has a missing text field
NoMissingText == \A idx \in RowIdx : HasText(idx)

\* the positions where s occurs in text
Positions(text, s) == {o \in 0..(Len(text) - Len(s)) : SubSeq(text, o + 1, o + Len(s)) = s}

Contains(text, s) == Positions(text, s) # {}

Substrings(text) == {SubSeq(text, a, b) : a \in 1..Len(text), b \in 1..Len(text)}

Emitted == Keys(repeated_sequences)

\* the row numbers among the occurrences of an emitted sequence
Support(seq) == {occ[1] : occ \in Range(Val(repeated_sequences, seq))}

\* the occurrences reported for the idx-th data row, in the order of the list
OccurrencesOfRow(seq, idx) ==
    SelectSeq(Val(repeated_sequences, seq), LAMBDA occ : occ[1] = idx + RowOffset - 1)

OffsetsOfRow(seq, idx) ==
    LET occs == OccurrencesOfRow(seq, idx) IN [j \in 1..Len(occs) |-> occs[j][4]]

Ascending(offs) == \A j, k \in DOMAIN offs : j < k => offs[j] < offs[k]

\* the data rows whose sentence, as the function reads it, contains s
RowsContaining(s) == {idx \in RowIdx : Contains(SentenceOf(data_to_process[idx]), s)}

\* the buckets an emitted sequence is placed in
BucketsOf(seq) == {t \in Range(CHECK_LENGTHS) : seq \in Keys(exclusive_results[t])}

\* ------------------------------------------------------------------ claims
\* C1: for every L >= 1, every sequence returned by find_repeated_sequences
\* has occurrences in at least 2 distinct row numbers, and at least two rows
\* contain it: a substring found in a single row, however often, is not emitted.
C1_Support ==
    (Returned /\ L >= 1) =>
        \A seq \in Emitted :
            /\ Cardinality(Support(seq)) >= 2
            /\ Cardinality(RowsContaining(seq)) >= 2

\* C1 witness: a substring of length >= L occurs twice inside one row and in no
\* other row, and the pass has returned something else.
C1_Witness ==
    /\ Returned /\ L >= 1 /\ Emitted # {} /\ NoMissingText
    /\ \E idx \in RowIdx : \E s \in Substrings(SentenceOf(data_to_process[idx])) :
          /\ Len(s) >= L
          /\ Cardinality(Positions(SentenceOf(data_to_process[idx]), s)) >= 2
          /\ RowsContaining(s) = {idx}

\* C2 as stated: no emitted sequence is a proper substring of another emitted
\* sequence supported by the same or a superset of its row numbers (stated for
\* the inputs where every row has its text).
C2_Maximality ==
    (Returned /\ L >= 1 /\ NoMissingText) =>
        \A s1 \in Emitted : \A s2 \in Emitted :
            ~(s1 # s2 /\ Contains(s2, s1) /\ Support(s1) \subseteq Support(s2))

\* C2 amended: the result is closed under substrings: with an emitted sequence,
\* every substring of it of length >= L is emitted too, supported by at least
\* the same row numbers.
C2_SubstringClosed ==
    (Returned /\ L >= 1) =>
        \A s2 \in Emitted : \A s1 \in Substrings(s2) :
            Len(s1) >= L => (s1 \in Emitted /\ Support(s2) \subseteq Support(s1))

\* C2 witness: a sequence longer than L is emitted along with a proper substring.
C2_Witness ==
    /\ Returned /\ L >= 1 /\ NoMissingText
    /\ \E s2 \in Emitted : \E s1 \in Emitted :
          s1 # s2 /\ Contains(s2, s1) /\ Len(s2) > L

C4_BucketExclusive ==
    Categorized =>
        \A seq \in Emitted :
            IF Len(seq) >= MinOf(Range(CHECK_LENGTHS))
            THEN BucketsOf(seq) = {MaxOf({t \in Range(CHECK_LENGTHS) : t <= Len(seq)})}
            ELSE BucketsOf(seq) = {}

\* C4 witness: a sequence longer than the second threshold and shorter than
\* the third has been categorized, and so has one as long as the third or longer.
C4_Witness ==
    /\ Categorized
    /\ \E seq \in Emitted : Len(seq) > CHECK_LENGTHS[2] /\ Len(seq) < CHECK_LENGTHS[3]
    /\ \E seq \in Emitted : Len(seq) >= CHECK_LENGTHS[3]

\* C5 as stated: with a minimum length L < 1 no substring is generated and no
\* sequence is emitted.
C5_InvalidThresholdRejected ==
    L < 1 => (all_substrings_sources = <<>> /\ repeated_sequences = <<>>)

\* C6 as stated: for L >= 1 a row whose text field is missing contributes no
\* candidate substring and is the record of no occurrence.
C6_MissingTextSkipped ==
    (Returned /\ L >= 1) =>
        \A idx \in RowIdx :
            ~HasText(idx) =>
                /\ \A e \in Range(all_substrings_sources) :
                      \A src \in e.val : src[1] # idx + RowOffset - 1
                /\ \A seq \in Emitted : OccurrencesOfRow(seq, idx) = <<>>

\* the 1-based position of the idx-th data row among the rows that have their text
RetainedPosition(idx) == Cardinality({j \in 1..idx : HasText(j)})

\* the data rows an emitted sequence has occurrences of
RowsReported(seq) == {idx \in RowIdx : OccurrencesOfRow(seq, idx) # <<>>}

\* C7 as stated: the row number of every occurrence is the row's 1-based
\* position among the rows that have their text, plus one for the header
\* (stated for the sequences found only in rows that have their text).
C7_RetainedPositionIdentity ==
    (Returned /\ L >= 1) =>
        \A seq \in Emitted :
            (\A idx \in RowsReported(seq) : HasText(idx)) =>
                \A idx \in RowsReported(seq) :
                    \A occ \in Range(OccurrencesOfRow(seq, idx)) :
                        occ[1] = RetainedPosition(idx) + 1

\* C7 amended: the row number of every occurrence is the line of its row in the
\* uploaded file, header included (the row's 1-based position among all the
\* rows handed to find_repeated_sequences, plus one): that line holds the
\* label and the text of the occurrence, so that a row number always stands
\* for the same record.
C7_FileLineIdentity ==
    (Returned /\ L >= 1) =>
        \A e \in Range(repeated_sequences) : \A occ \in Range(e.val) :
            /\ occ[1] \in 2..Len(df)
            /\ data_to_process[occ[1] - 1] = <<df[occ[1]][1], df[occ[1]][2]>>
            /\ occ[2] = str(df[occ[1]][1])
            /\ occ[3] = str(df[occ[1]][2])
            /\ SubSeq(occ[3], occ[4] + 1, occ[4] + Len(e.key)) = e.key

\* C7 witness: an occurrence is reported for a row that follows a row skipped
\* for its missing or too short text.
C7_Witness ==
    /\ Returned /\ L >= 1
    /\ \E seq \in Emitted : \E idx \in RowIdx : \E j \in 1..(idx - 1) :
          /\ OccurrencesOfRow(seq, idx) # <<>>
          /\ HasText(idx)
          /\ (~HasText(j) \/ Len(TextField(j)) < L)
          /\ \A s \in Emitted : OccurrencesOfRow(s, j) = <<>>

\* the (sequence, occurrence) pairs of a category
OccurrencePairs(t) ==
    UNION {{<<e.key, occ>> : occ \in Range(e.val)} : e \in Range(exclusive_results[t])}

\* the (sequence, record) pairs of a category
RecordPairs(t) ==
    {<<pr[1], pr[2][1], pr[2][2], pr[2][3]>> : pr \in OccurrencePairs(t)}

Distinct(rows) == \A j, k \in DOMAIN rows : j # k => rows[j] # rows[k]

\* C8 as stated: within a category no two export rows are identical and every
\* distinct (sequence, occurrence) pair has its own export row.
C8_RowPerOccurrence ==
    pc = "done" =>
        \A t \in Range(CHECK_LENGTHS) :
            /\ Distinct(export_data[t])
            /\ Len(export_data[t]) = Cardinality(OccurrencePairs(t))

\* C8 amended: within a category no two export rows are identical and there is
\* exactly one export row for every distinct (sequence, row number, label,
\* text): occurrences of a sequence at different offsets of one record share
\* one export row.
C8_RowPerRecord ==
    pc = "done" =>
        \A t \in Range(CHECK_LENGTHS) :
            /\ Distinct(export_data[t])
            /\ {<<r.sequence, r.row, r.task_id, r.sentence>> : r \in Range(export_data[t])}
                   = RecordPairs(t)
            /\ \A r \in Range(export_data[t]) : r.length = Len(r.sequence)

\* C8 witness: a categorized sequence occurs at two offsets of one record and
\* the category has been exported.
C8_Witness ==
    /\ pc = "done"
    /\ \E t \in Range(CHECK_LENGTHS) :
          /\ export_data[t] # <<>>
          /\ Cardinality(OccurrencePairs(t)) > Cardinality(RecordPairs(t))

\* C9: for every L >= 1 every emitted sequence has length >= L, and every
\* sequence placed in a bucket has length >= the bucket's threshold.
C9_Length ==
    /\ (Returned /\ L >= 1) => \A seq \in Emitted : Len(seq) >= L
    /\ (Categorized /\ L >= 1) =>
          \A t \in Range(CHECK_LENGTHS) : \A seq \in Keys(exclusive_results[t]) : Len(seq) >= t

\* C9 witness: sequences have been emitted and some were placed in a bucket.
C9_Witness ==
    /\ Categorized /\ L >= 1 /\ NoMissingText
    /\ \E seq \in Emitted : Len(seq) = L
    /\ \E t \in Range(CHECK_LENGTHS) : \E seq \in Keys(exclusive_results[t]) : Len(seq) = t

\* the substrings of length >= L found in the text of more than one data row
\* (a row whose text is missing has no substring)
SharedSubstrings ==
    {s \in UNION {Substrings(TextField(idx)) : idx \in {j \in RowIdx : HasText(j)}} :
        /\ Len(s) >= L
        /\ Cardinality({idx \in RowIdx : HasText(idx) /\ Contains(TextField(idx), s)}) >= 2}

\* C10 as stated: for L >= 1 the keys returned are exactly the substrings of
\* length >= L found in the text of more than one row.
C10_Complete ==
    (Returned /\ L >= 1) => Emitted = SharedSubstrings

====
